---- MODULE Spec2Model ----
(***************************************************************************)
(* Model of mcptool's interactive session engine                            *)
(* (crates/libmcptool/src/connect.rs, crates/libmcptool/src/mcp.rs).        *)
(*                                                                          *)
(* Three parties run concurrently:                                          *)
(*   - the Line Source thread (connect.rs 61-89): blocks in rl.readline,    *)
(*     sends line events on input_tx, then blocks on prompt_rx.recv();      *)
(*   - the protocol client, which calls NotificationClientConn::notification*)
(*     (connect.rs 23-30) for every server push;                            *)
(*   - the session loop (connect.rs 94-166): tokio::select! over the        *)
(*     notification receiver and the input receiver.                        *)
(*                                                                          *)
(* A line is modelled as a sequence of tokens; a token is either a run of   *)
(* whitespace (SP) or a maximal run of non-whitespace characters (a word).  *)
(* Every step of the session loop is the code between two suspension points *)
(* (an .await on the connection, or a blocking read of tool arguments).     *)
(* Every output call returns a Result that the code propagates with `?`, so *)
(* each step that renders has a failing outcome.                            *)
(***************************************************************************)
EXTENDS Naturals, Sequences, FiniteSets

\* ------------------------------------------------------------------ bounds
\* Lines (of any kind) the operator types in one session.
MaxLines == 2
\* Notifications the protocol client hands to the relay in one session.
MaxNotifs == 2

\* ------------------------------------------------------------------ inputs
SP == " "

\* What the operator can type at the "mcp> " prompt.
RawLines ==
  { <<>>,
    <<SP>>,
    <<"quit">>,
    <<SP, "exit", SP>>,
    <<"help">>,
    <<"init", SP>>,
    <<"ping">>,
    <<"quit", SP, "now">>,
    <<"calltool", SP, "echo">>,
    <<"calltool", SP, "echo", SP, "--json">>,
    <<"calltool", SP, "echo", SP, "--arg", SP, "k=v">>,
    <<"calltool", SP, "nosuch", SP, "--interactive">> }

\* Every calltool line over these choices: the tool, the inline arguments, the
\* --interactive flag and the --json flag.
ToolNames == {"echo", "nosuch"}
InlineArgs == { <<>>, <<"k=v">>, <<"kv">> }

RECURSIVE ArgTokens(_)
ArgTokens(args) ==
  IF args = <<>> THEN <<>>
  ELSE <<SP, "--arg", SP, Head(args)>> \o ArgTokens(Tail(args))

ToolLine(tool, args, interactive, json) ==
  <<"calltool", SP, tool>> \o ArgTokens(args)
    \o (IF interactive THEN <<SP, "--interactive">> ELSE <<>>)
    \o (IF json THEN <<SP, "--json">> ELSE <<>>)

ToolLines ==
  { ToolLine(t, a, i, j) :
      t \in ToolNames, a \in InlineArgs, i \in BOOLEAN, j \in BOOLEAN }

\* An empty line, two local commands and one command with a request.
IdleLines == { <<>>, <<"quit">>, <<"help">>, <<"ping">> }

\* The level strings an operator passes to setlevel: the eight levels, some of
\* them in other cases, and strings that are no level.
LevelStrings ==
  {"debug", "info", "notice", "warning", "error", "critical", "alert",
   "emergency", "DEBUG", "Info", "WARNING", "eMeRgEnCy",
   "verbose", "warn", "debugx", "trace"}

LevelLines == { <<"setlevel", SP, level>> : level \in LevelStrings }

\* One line or more for every structured command kind, valid and invalid.
OpLines ==
  { <<"ping">>,
    <<"listtools">>,
    <<"listresources">>,
    <<"listprompts">>,
    <<"listresourcetemplates">>,
    <<"setlevel", SP, "debug">>,
    <<"setlevel", SP, "Info">>,
    <<"setlevel", SP, "verbose">>,
    <<"readresource", SP, "resource://x">>,
    <<"subscribe", SP, "resource://x">>,
    <<"unsubscribe", SP, "resource://x">>,
    <<"getprompt", SP, "p">>,
    <<"getprompt", SP, "p", SP, "k=v">>,
    <<"getprompt", SP, "p", SP, "kv">>,
    <<"complete", SP, "resource://x", SP, "a">>,
    <<"complete", SP, "prompt://p", SP, "a">>,
    <<"complete", SP, "p", SP, "a">>,
    <<"calltool", SP, "echo">>,
    <<"calltool", SP, "echo", SP, "--json">>,
    <<"calltool", SP, "echo", SP, "--arg", SP, "k=v">>,
    <<"calltool", SP, "nosuch", SP, "--arg", SP, "k=v">> }

\* rustyline's failures: ReadlineError::Interrupted, ::Eof, and any other.
ReadErrors == {"Interrupted", "Eof", "Io"}

\* The n-th ServerNotification the server pushes is identified by n: every
\* notification is a distinct immutable value.
NextNotification(n) == n + 1

\* The InitializeResult a server can answer the connect-time handshake with.
InitResults == {"server-a", "server-b"}

\* The tools the server's list_tools result names.
ServerTools == {"echo"}

\* ------------------------------------------------------------------- state
VARIABLES
  ls,            \* Line Source thread: "start" | "reading" | "waiting" | "done"
  typed,         \* number of readline calls that have returned
  lastRaw,       \* what the last readline call returned (the thread's `line`)
  input_chan,    \* line events sent on input_tx and not yet received
  inputSent,     \* history: every line event sent on input_tx
  prompt_chan,   \* pacing signals sent on prompt_tx and not yet received
  signalsSent,   \* history: number of prompt_tx.send(()) calls
  notification_chan, \* notifications sent by the relay and not yet received
  notifSent,     \* history: every notification the relay's send accepted
  delivered,     \* history: every notification handed to the relay
  relayReturns,  \* history: what each call of the relay returned
  rendered,      \* history: notifications the loop displayed
  pc,            \* session loop: "select" | "await_ping" | "await_op"
                 \*   | "await_list_tools"
                 \*   | "read_args" | "await_call_tool" | "returned"
  ret,           \* connect_command's result: "none" | "Ok" | "Err"
  cur,           \* the line being handled across suspension points
  log,           \* history: one entry per line event the loop received
  \* tests/notification_integration.rs: a client that is never drained
  wire,          \* server-to-client messages in flight, in sending order
  awaiting,      \* the test awaits the reply of a set_level request
  completed,     \* history: levels of the set_level requests that completed
  server_notification_chan, \* the test client's unbounded notification queue
  \* connect_command's init_result and what calltool and the init arm did
  init_result,   \* the InitializeResult captured when the client connected
  initShown,     \* history: the value each `init` line rendered
  acquired       \* history: the argument routine each tool call ran

vars == << ls, typed, lastRaw, input_chan, inputSent, prompt_chan, signalsSent,
           notification_chan, notifSent, delivered, relayReturns, rendered,
           pc, ret, cur, log, wire, awaiting, completed, server_notification_chan,
           init_result, initShown, acquired >>

testVars == << wire, awaiting, completed, server_notification_chan >>
lsVars == << ls, typed, lastRaw, inputSent, testVars >>
relayVars == << delivered, relayReturns, notifSent >>
auxVars == << init_result, initShown, acquired >>
sessionVars == << ls, typed, lastRaw, input_chan, inputSent, prompt_chan,
                  signalsSent, notification_chan, notifSent, delivered,
                  relayReturns, rendered, pc, ret, cur, log, auxVars >>

\* ----------------------------------------------------------- pure helpers
RECURSIVE TrimStart(_)
TrimStart(s) ==
  IF s # <<>> /\ Head(s) = SP THEN TrimStart(Tail(s)) ELSE s

RECURSIVE TrimEnd(_)
TrimEnd(s) ==
  IF s # <<>> /\ s[Len(s)] = SP THEN TrimEnd(SubSeq(s, 1, Len(s) - 1)) ELSE s

\* A mutant of Trim: trimming left out.
TrimIdentity(raw) == raw

\* line.trim()
Trim(raw) == TrimEnd(TrimStart(raw))

IsWord(t) == t # SP

\* line.split_whitespace().collect()
SplitWhitespace(line) == SelectSeq(line, IsWord)

LineEvent(kind, line) == [kind |-> kind, line |-> line]

\* --------------------------------------------- structured-command grammar
NoCommand == [op |-> "invalid", tool |-> "", args |-> <<>>,
              interactive |-> FALSE, json |-> FALSE, param |-> ""]

\* The flags after `calltool <name>`: --json, --interactive, --arg <key=value>.
RECURSIVE ParseToolFlags(_, _)
ParseToolFlags(ts, acc) ==
  IF ts = <<>> THEN acc
  ELSE IF Head(ts) = "--json"
    THEN ParseToolFlags(Tail(ts), [acc EXCEPT !.json = TRUE])
  ELSE IF Head(ts) = "--interactive"
    THEN ParseToolFlags(Tail(ts), [acc EXCEPT !.interactive = TRUE])
  ELSE IF Head(ts) = "--arg" /\ Len(ts) >= 2
    THEN ParseToolFlags(Tail(Tail(ts)), [acc EXCEPT !.args = Append(@, ts[2])])
  ELSE NoCommand

\* The command words without a parameter, and the mcp function each names.
ListWords ==
  [w \in {"listtools", "listresources", "listprompts", "listresourcetemplates"}
     |-> w]

\* The command words with one parameter (level or uri).
ParamWords ==
  [w \in {"setlevel", "readresource", "subscribe", "unsubscribe"} |->
     CASE w = "setlevel" -> "set_level"
       [] w = "readresource" -> "read_resource"
       [] w = "subscribe" -> "subscribe_resource"
       [] w = "unsubscribe" -> "unsubscribe_resource"]

\* ReplCommandWrapper::try_parse_from(parts): the parsed command, or op = "invalid".
ParseCommand(parts) ==
  IF parts = <<>> THEN NoCommand
  ELSE IF parts = <<"ping">> THEN [NoCommand EXCEPT !.op = "ping"]
  ELSE IF Len(parts) = 1 /\ parts[1] \in DOMAIN ListWords
    THEN [NoCommand EXCEPT !.op = ListWords[parts[1]]]
  ELSE IF Len(parts) = 2 /\ parts[1] \in DOMAIN ParamWords
    THEN [NoCommand EXCEPT !.op = ParamWords[parts[1]], !.param = parts[2]]
  ELSE IF Len(parts) >= 2 /\ parts[1] = "getprompt"
    THEN [NoCommand EXCEPT !.op = "get_prompt", !.param = parts[2],
                           !.args = SubSeq(parts, 3, Len(parts))]
  ELSE IF Len(parts) = 3 /\ parts[1] = "complete"
    THEN [NoCommand EXCEPT !.op = "complete", !.param = parts[2]]
  ELSE IF parts[1] = "calltool" /\ Len(parts) >= 2
    THEN ParseToolFlags(SubSeq(parts, 3, Len(parts)),
                        [NoCommand EXCEPT !.op = "calltool", !.tool = parts[2]])
  ELSE NoCommand

\* No line is being handled.
NoCur == [ev |-> LineEvent("none", <<>>), cmd |-> NoCommand,
          reqs |-> <<>>, reads |-> 0]

\* The inline arguments parse_command_line_arguments accepts: key=value.
ValidPairs == {"k=v"}

\* ------------------------------------------------------------ mcp::calltool
Count(b) == IF b THEN 1 ELSE 0

\* mode_count: how many of {inline args, interactive, json} are selected.
ModeCount(args, interactive, json) ==
  Count(args # <<>>) + Count(interactive) + Count(json)

\* A mutant of ArgumentRoutine: the interactive branch is missing.
ArgumentRoutineNoInteractive(cmd) == IF cmd.json THEN "json" ELSE "cmdline"

\* if json {..} else if interactive {..} else {..}: the routine calltool runs.
ArgumentRoutine(cmd) ==
  IF cmd.json THEN "json"
  ELSE IF cmd.interactive THEN "interactive"
  ELSE "cmdline"

\* A mutant of FindTool: the lookup is skipped and every name passes.
FindToolAny(tools, tool_name) == TRUE

\* tools_result.tools.iter().find(|t| t.name == tool_name)
FindTool(tools, tool_name) == tool_name \in tools

\* ------------------------------------------------------------------- Init
Init ==
  /\ ls = "start"
  /\ typed = 0
  /\ lastRaw = LineEvent("none", <<>>)
  /\ input_chan = <<>>
  /\ inputSent = <<>>
  /\ prompt_chan = 0
  /\ signalsSent = 0
  /\ notification_chan = <<>>
  /\ delivered = <<>>
  /\ relayReturns = <<>>
  /\ rendered = <<>>
  /\ pc = "select"
  /\ ret = "none"
  /\ cur = NoCur
  /\ log = <<>>
  /\ notifSent = <<>>
  /\ wire = <<>>
  /\ awaiting = FALSE
  /\ completed = <<>>
  /\ server_notification_chan = <<>>
  /\ init_result \in InitResults
  /\ initShown = <<>>
  /\ acquired = <<>>

\* connect_command has returned: notification_receiver, input_rx and prompt_tx
\* are dropped with its frame.
Returned == pc = "returned"

\* ------------------------------------------------------- Notification Relay
\* self.notification_sender.send(notification): an unbounded send, which fails
\* (and is ignored) when the receiver is dropped.
RelaySend(n) ==
  /\ notification_chan' =
       IF Returned THEN notification_chan ELSE Append(notification_chan, n)
  /\ notifSent' = IF Returned THEN notifSent ELSE Append(notifSent, n)

\* A mutant of RelayResult: the send's failure is returned to the client.
RelayResultPropagated == IF Returned THEN "Err" ELSE "Ok"

\* What NotificationClientConn::notification returns: Ok(()).
RelayResult == "Ok"

\* NotificationClientConn::notification, called by the protocol client.
Notify ==
  /\ Len(delivered) < MaxNotifs
  /\ LET n == NextNotification(Len(delivered)) IN
       /\ delivered' = Append(delivered, n)
       /\ RelaySend(n)
  /\ relayReturns' = Append(relayReturns, RelayResult)
  /\ UNCHANGED << lsVars, auxVars, input_chan, prompt_chan, signalsSent, rendered,
                  pc, ret, cur, log >>

\* -------------------------------------------------------------- Line Source
\* DefaultEditor::new().expect(..): the editor is created, or the thread panics.
LsStart ==
  /\ ls = "start"
  /\ \E created \in BOOLEAN : ls' = IF created THEN "reading" ELSE "done"
  /\ UNCHANGED << auxVars, typed, lastRaw, input_chan, inputSent, prompt_chan, signalsSent,
                  notification_chan, relayVars, rendered, pc, ret, cur, log,
                  testVars >>

\* input_tx.send(ev): fails when input_rx is dropped.
InputSend(ev) ==
  /\ input_chan' = IF Returned THEN input_chan ELSE Append(input_chan, ev)
  /\ inputSent' = IF Returned THEN inputSent ELSE Append(inputSent, ev)

\* A mutant of LsAfterSend: the thread prompts again without waiting.
LsAfterSendNoWait == IF Returned THEN "done" ELSE "reading"

\* After input_tx.send: break if it failed, else block in prompt_rx.recv().
LsAfterSend == IF Returned THEN "done" ELSE "waiting"

\* rl.readline returns Ok(line), for a line of `lines`.
LsRead(lines) ==
  /\ ls = "reading"
  /\ typed < MaxLines
  /\ \E raw \in lines :
       /\ typed' = typed + 1
       /\ lastRaw' = LineEvent("Ok", raw)
       /\ IF Trim(raw) = <<>>
            THEN /\ ls' = "reading"
                 /\ UNCHANGED << input_chan, inputSent >>
            ELSE /\ InputSend(LineEvent("Ok", Trim(raw)))
                 /\ ls' = LsAfterSend
  /\ UNCHANGED << auxVars, prompt_chan, signalsSent, notification_chan, relayVars,
                  rendered, pc, ret, cur, log, testVars >>

\* The operator types a line at the prompt.
LsReadLine == LsRead(RawLines)

\* The operator types a calltool line.
LsReadToolLine == LsRead(ToolLines)

\* The operator types an empty line, a local command or a ping.
LsReadIdleLine == LsRead(IdleLines)

\* The operator types a setlevel line.
LsReadLevelLine == LsRead(LevelLines)

\* The operator types a structured command.
LsReadOpLine == LsRead(OpLines)

\* rl.readline returns Err(err).
LsReadError ==
  /\ ls = "reading"
  /\ typed < MaxLines
  /\ \E e \in ReadErrors :
       /\ typed' = typed + 1
       /\ lastRaw' = LineEvent(e, <<>>)
       /\ InputSend(LineEvent(e, <<>>))
  /\ ls' = "done"
  /\ UNCHANGED << auxVars, prompt_chan, signalsSent, notification_chan, relayVars,
                  rendered, pc, ret, cur, log, testVars >>

\* A mutant of LsPromptRecv: try_recv, the thread goes on with or without a
\* signal.
LsPromptRecvNoBlock ==
  /\ ls = "waiting"
  /\ prompt_chan' = IF prompt_chan > 0 THEN prompt_chan - 1 ELSE prompt_chan
  /\ ls' = "reading"
  /\ UNCHANGED << auxVars, typed, lastRaw, input_chan, inputSent, signalsSent,
                  notification_chan, relayVars, rendered, pc, ret, cur, log,
                  testVars >>

\* A mutant of LsPromptRecv: a closed channel is not noticed, only a signal
\* wakes the thread.
LsPromptRecvOnlySignal ==
  /\ ls = "waiting"
  /\ prompt_chan > 0
  /\ prompt_chan' = prompt_chan - 1
  /\ ls' = "reading"
  /\ UNCHANGED << auxVars, typed, lastRaw, input_chan, inputSent, signalsSent,
                  notification_chan, relayVars, rendered, pc, ret, cur, log,
                  testVars >>

\* prompt_rx.recv(): a signal, or an error once prompt_tx is dropped and the
\* channel is empty.
LsPromptRecv ==
  /\ ls = "waiting"
  /\ \/ /\ prompt_chan > 0
        /\ prompt_chan' = prompt_chan - 1
        /\ ls' = "reading"
     \/ /\ prompt_chan = 0
        /\ Returned
        /\ prompt_chan' = prompt_chan
        /\ ls' = "done"
  /\ UNCHANGED << auxVars, typed, lastRaw, input_chan, inputSent, signalsSent,
                  notification_chan, relayVars, rendered, pc, ret, cur, log,
                  testVars >>

\* ------------------------------------------------------------ Session Loop
loopFrame == << lsVars, relayVars >>

\* A mutant of Return: the result is noted and the loop goes on selecting.
ReturnKeepsRunning(r) == pc' = "select" /\ ret' = r /\ cur' = NoCur

\* return / break: the loop is left and connect_command returns r.
Return(r) == pc' = "returned" /\ ret' = r /\ cur' = NoCur

LogLine(ev, out, res, reqs, reads) ==
  log' = Append(log, [ev |-> ev, out |-> out, res |-> res,
                      reqs |-> reqs, reads |-> reads])

\* A mutant of SignalPrompt: the signal is sent twice.
SignalPromptTwice ==
  /\ signalsSent' = signalsSent + 2
  /\ prompt_chan' = IF ls # "done" THEN prompt_chan + 2 ELSE prompt_chan

\* let _ = prompt_tx.send(()): fails (ignored) when the thread has ended.
SignalPrompt ==
  /\ signalsSent' = signalsSent + 1
  /\ prompt_chan' = IF ls # "done" THEN prompt_chan + 1 ELSE prompt_chan

\* The end of the Some(Ok(line)) arm: the arm's rendering succeeded, the signal
\* is sent and the loop iterates; or an output call failed and `?` returns it.
EndOfLine(ev, out, res, reqs, reads, renderOk) ==
  IF renderOk
    THEN /\ LogLine(ev, out, res, reqs, reads)
         /\ SignalPrompt
         /\ pc' = "select"
         /\ cur' = NoCur
         /\ ret' = ret
    ELSE /\ LogLine(ev, "OutputError", res, reqs, reads)
         /\ UNCHANGED << signalsSent, prompt_chan >>
         /\ Return("Err")

\* A mutant of DispatchDone: after a failed command the loop iterates without
\* signalling the Line Source.
DispatchDoneNoSignal(ev, res, reqs, reads) ==
  IF res = "Ok"
    THEN EndOfLine(ev, "Ok", res, reqs, reads, TRUE)
    ELSE /\ LogLine(ev, "Command failed", res, reqs, reads)
         /\ UNCHANGED << signalsSent, prompt_chan, ret >>
         /\ pc' = "select"
         /\ cur' = NoCur

\* A mutant of DispatchDone: a failed command ends the session with its error.
DispatchDoneFatal(ev, res, reqs, reads) ==
  IF res = "Ok"
    THEN EndOfLine(ev, "Ok", res, reqs, reads, TRUE)
    ELSE /\ LogLine(ev, "Command failed", res, reqs, reads)
         /\ UNCHANGED << signalsSent, prompt_chan >>
         /\ Return("Err")

\* The match on execute_mcp_command_with_client's result: Ok renders nothing
\* more; Err(e) renders "Command failed: {e}".
DispatchDone(ev, res, reqs, reads) ==
  IF res = "Ok"
    THEN EndOfLine(ev, "Ok", res, reqs, reads, TRUE)
    ELSE \E renderOk \in BOOLEAN :
           EndOfLine(ev, "Command failed", res, reqs, reads, renderOk)

\* A mutant of Recv: the received event is left on its queue.
RecvPeek(chan) == chan

\* recv(): the queue after its oldest event is taken.
Recv(chan) == Tail(chan)

\* A mutant of HandleNotification: notifications are rendered from a task of
\* their own, whatever the loop is doing.
HandleNotificationAnytime ==
  /\ pc # "returned"
  /\ notification_chan # <<>>
  /\ notification_chan' = Recv(notification_chan)
  /\ rendered' = Append(rendered, Head(notification_chan))
  /\ UNCHANGED << pc, ret, cur >>
  /\ UNCHANGED << loopFrame, auxVars, input_chan, prompt_chan, signalsSent, log >>

\* A mutant of HandleNotification: the loop reads the terminal itself, so a
\* notification is taken only when no prompt is open.
HandleNotificationStalled ==
  /\ pc = "select"
  /\ ls # "reading"
  /\ notification_chan # <<>>
  /\ notification_chan' = Recv(notification_chan)
  /\ \E renderOk \in BOOLEAN :
       IF renderOk
         THEN /\ rendered' = Append(rendered, Head(notification_chan))
              /\ UNCHANGED << pc, ret, cur >>
         ELSE /\ rendered' = rendered
              /\ Return("Err")
  /\ UNCHANGED << loopFrame, auxVars, input_chan, prompt_chan, signalsSent, log >>

\* notification = notification_receiver.recv() => display_notification(..)?
HandleNotification ==
  /\ pc = "select"
  /\ notification_chan # <<>>
  /\ notification_chan' = Recv(notification_chan)
  /\ \E renderOk \in BOOLEAN :
       IF renderOk
         THEN /\ rendered' = Append(rendered, Head(notification_chan))
              /\ UNCHANGED << pc, ret, cur >>
         ELSE /\ rendered' = rendered
              /\ Return("Err")
  /\ UNCHANGED << loopFrame, auxVars, input_chan, prompt_chan, signalsSent, log >>

\* user_input = input_rx.recv() yields Some(ev).
RecvLine ==
  /\ pc = "select"
  /\ input_chan # <<>>
  /\ input_chan' = Recv(input_chan)

\* A mutant of IsQuit: only `quit` leaves the session.
IsQuitOnly(line) == line = <<"quit">>

\* "quit" | "exit"
IsQuit(line) == line \in { <<"quit">>, <<"exit">> }

IsLocal(line) == IsQuit(line) \/ line \in { <<"help">>, <<"init">> }

\* "quit" | "exit" => { ctx.output.text("Goodbye!")?; break; }
HandleQuit ==
  /\ RecvLine
  /\ LET ev == Head(input_chan) IN
       /\ ev.kind = "Ok"
       /\ IsQuit(ev.line)
       /\ \E renderOk \in BOOLEAN :
            /\ LogLine(ev, IF renderOk THEN "Goodbye" ELSE "OutputError",
                       "none", <<>>, 0)
            /\ Return(IF renderOk THEN "Ok" ELSE "Err")
  /\ UNCHANGED << loopFrame, auxVars, notification_chan, rendered, prompt_chan, signalsSent >>

\* "help" => { h1(..)?; text(generate_repl_help())?; }
HandleHelp ==
  /\ RecvLine
  /\ LET ev == Head(input_chan) IN
       /\ ev.kind = "Ok"
       /\ ev.line = <<"help">>
       /\ \E renderOk \in BOOLEAN :
            EndOfLine(ev, "help", "none", <<>>, 0, renderOk)
  /\ UNCHANGED << loopFrame, auxVars, notification_chan, rendered >>

\* A mutant of HandleInit: the handshake is run again and its result shown.
HandleInitReinitializes ==
  /\ RecvLine
  /\ LET ev == Head(input_chan) IN
       /\ ev.kind = "Ok"
       /\ ev.line = <<"init">>
       /\ \E fresh \in InitResults :
            /\ init_result' = fresh
            /\ initShown' = Append(initShown, fresh)
            /\ EndOfLine(ev, "init", "none", <<"initialize">>, 0, TRUE)
  /\ UNCHANGED << loopFrame, acquired, notification_chan, rendered >>

\* "init" => { note(..)?; initresult::init_result(&ctx.output, &init_result)?; }
HandleInit ==
  /\ RecvLine
  /\ LET ev == Head(input_chan) IN
       /\ ev.kind = "Ok"
       /\ ev.line = <<"init">>
       /\ \E renderOk \in BOOLEAN :
            /\ EndOfLine(ev, "init", "none", <<>>, 0, renderOk)
            /\ initShown' = IF renderOk THEN Append(initShown, init_result)
                                        ELSE initShown
  /\ UNCHANGED << loopFrame, init_result, acquired, notification_chan, rendered >>

\* A mutant of HandleInvalid: an unparsable line ends the session.
HandleInvalidBreaks ==
  /\ RecvLine
  /\ LET ev == Head(input_chan) IN
       /\ ev.kind = "Ok"
       /\ ~IsLocal(ev.line)
       /\ ParseCommand(SplitWhitespace(ev.line)).op = "invalid"
       /\ LogLine(ev, "Invalid command", "none", <<>>, 0)
       /\ Return("Ok")
  /\ UNCHANGED << loopFrame, auxVars, notification_chan, rendered, prompt_chan, signalsSent >>

\* _ => try_parse_from(parts) is Err(e): "Invalid command: {e}" and the hint.
HandleInvalid ==
  /\ RecvLine
  /\ LET ev == Head(input_chan) IN
       /\ ev.kind = "Ok"
       /\ ~IsLocal(ev.line)
       /\ ParseCommand(SplitWhitespace(ev.line)).op = "invalid"
       /\ \E renderOk \in BOOLEAN :
            EndOfLine(ev, "Invalid command", "none", <<>>, 0, renderOk)
  /\ UNCHANGED << loopFrame, auxVars, notification_chan, rendered >>

\* execute_mcp_command_with_client: the mcp function a parsed command runs.
Dispatches(cmd, op) == cmd.op = op

InFlight(ev, cmd, reqs, reads) ==
  cur' = [ev |-> ev, cmd |-> cmd, reqs |-> reqs, reads |-> reads]

\* Ok(wrapper) with a ping command: mcp::ping up to client.ping().await.
StartPing ==
  /\ RecvLine
  /\ LET ev == Head(input_chan)
         cmd == ParseCommand(SplitWhitespace(ev.line)) IN
       /\ ev.kind = "Ok"
       /\ ~IsLocal(ev.line)
       /\ Dispatches(cmd, "ping")
       /\ \E textOk \in BOOLEAN :
            IF textOk
              THEN /\ InFlight(ev, cmd, <<"ping">>, 0)
                   /\ pc' = "await_ping"
                   /\ UNCHANGED << ret, log, signalsSent, prompt_chan >>
              ELSE DispatchDone(ev, "Output", <<>>, 0)
  /\ UNCHANGED << loopFrame, auxVars, notification_chan, rendered >>

\* client.ping() completes; output.ping()? renders the reply.
PingReply ==
  /\ pc = "await_ping"
  /\ \E res \in {"Ok", "Protocol", "Output"} :
       DispatchDone(cur.ev, res, cur.reqs, cur.reads)
  /\ UNCHANGED << loopFrame, auxVars, input_chan, notification_chan, rendered >>

\* ------------------------------------------- mcp: the one-request commands
\* A mutant of RequestOf: unsubscribe_resource calls resources_subscribe.
RequestOfCopied ==
  [op \in {"listtools", "listresources", "listprompts", "listresourcetemplates",
           "set_level", "read_resource", "get_prompt", "subscribe_resource",
           "unsubscribe_resource", "complete"} |->
     CASE op = "listtools" -> "list_tools"
       [] op = "listresources" -> "list_resources"
       [] op = "listprompts" -> "list_prompts"
       [] op = "listresourcetemplates" -> "list_resource_templates"
       [] op = "set_level" -> "set_level"
       [] op = "read_resource" -> "resources_read"
       [] op = "get_prompt" -> "get_prompt"
       [] op = "subscribe_resource" -> "resources_subscribe"
       [] op = "unsubscribe_resource" -> "resources_subscribe"
       [] op = "complete" -> "complete"]

\* The mcp functions that send one request, and the client method each calls.
RequestOf ==
  [op \in {"listtools", "listresources", "listprompts", "listresourcetemplates",
           "set_level", "read_resource", "get_prompt", "subscribe_resource",
           "unsubscribe_resource", "complete"} |->
     CASE op = "listtools" -> "list_tools"
       [] op = "listresources" -> "list_resources"
       [] op = "listprompts" -> "list_prompts"
       [] op = "listresourcetemplates" -> "list_resource_templates"
       [] op = "set_level" -> "set_level"
       [] op = "read_resource" -> "resources_read"
       [] op = "get_prompt" -> "get_prompt"
       [] op = "subscribe_resource" -> "resources_subscribe"
       [] op = "unsubscribe_resource" -> "resources_unsubscribe"
       [] op = "complete" -> "complete"]

\* A mutant of ToLowercase: the level is matched as typed.
ToLowercaseIdentity(level) == level

\* level.to_lowercase(), on the levels an operator types here.
ToLowercase(level) ==
  CASE level = "Info" -> "info"
    [] level = "DEBUG" -> "debug"
    [] level = "WARNING" -> "warning"
    [] level = "eMeRgEnCy" -> "emergency"
    [] OTHER -> level

\* The match arms of set_level.
LoggingLevels == {"debug", "info", "notice", "warning", "error", "critical",
                  "alert", "emergency"}

\* reference.starts_with(prefix), on the references an operator types here.
StartsWith(reference, prefix) ==
  << reference, prefix >> \in { << "resource://x", "resource://" >>,
                                << "prompt://p", "prompt://" >> }

\* ArgumentParser::parse_key_value_args(args)
KeyValueArgsOk(args) == \A i \in DOMAIN args : args[i] \in ValidPairs

\* What the function checks between output.text and its request.
ParamsOk(cmd) ==
  CASE cmd.op = "set_level" -> ToLowercase(cmd.param) \in LoggingLevels
    [] cmd.op = "get_prompt" -> KeyValueArgsOk(cmd.args)
    [] cmd.op = "complete" ->
         StartsWith(cmd.param, "resource://") \/ StartsWith(cmd.param, "prompt://")
    [] OTHER -> TRUE

\* Ok(wrapper) with a one-request command: the mcp function up to its await.
StartOp ==
  /\ RecvLine
  /\ LET ev == Head(input_chan)
         cmd == ParseCommand(SplitWhitespace(ev.line)) IN
       /\ ev.kind = "Ok"
       /\ ~IsLocal(ev.line)
       /\ \E op \in DOMAIN RequestOf : Dispatches(cmd, op)
       /\ \E textOk \in BOOLEAN :
            IF ~textOk
              THEN DispatchDone(ev, "Output", <<>>, 0)
            ELSE IF ~ParamsOk(cmd)
              THEN DispatchDone(ev, "Invalid", <<>>, 0)
            ELSE /\ InFlight(ev, cmd, << RequestOf[cmd.op] >>, 0)
                 /\ pc' = "await_op"
                 /\ UNCHANGED << ret, log, signalsSent, prompt_chan >>
  /\ UNCHANGED << loopFrame, auxVars, notification_chan, rendered >>

\* The request completes; the result (or the trace_success line) is rendered.
OpReply ==
  /\ pc = "await_op"
  /\ \E res \in {"Ok", "Protocol", "Output"} :
       DispatchDone(cur.ev, res, cur.reqs, cur.reads)
  /\ UNCHANGED << loopFrame, auxVars, input_chan, notification_chan, rendered >>

\* A mutant of ModeError: only a missing mode is refused.
ModeErrorOnlyZero(mode_count) == mode_count = 0

\* if mode_count == 0 { return Err(..) }  if mode_count > 1 { return Err(..) }
ModeError(mode_count) == mode_count = 0 \/ mode_count > 1

\* Ok(wrapper) with a calltool command: mcp::calltool up to
\* client.list_tools(None).await.
StartCallTool ==
  /\ RecvLine
  /\ LET ev == Head(input_chan)
         cmd == ParseCommand(SplitWhitespace(ev.line)) IN
       /\ ev.kind = "Ok"
       /\ ~IsLocal(ev.line)
       /\ Dispatches(cmd, "calltool")
       /\ IF ModeError(ModeCount(cmd.args, cmd.interactive, cmd.json))
            THEN DispatchDone(ev, "Usage", <<>>, 0)
            ELSE \E textOk \in BOOLEAN :
                   IF textOk
                     THEN /\ InFlight(ev, cmd, <<"list_tools">>, 0)
                          /\ pc' = "await_list_tools"
                          /\ UNCHANGED << ret, log, signalsSent, prompt_chan >>
                     ELSE DispatchDone(ev, "Output", <<>>, 0)
  /\ UNCHANGED << loopFrame, auxVars, notification_chan, rendered >>

\* calltool::cmdline::parse_command_line_arguments(args, output)
CmdlineArgsOk(args) == \A i \in DOMAIN args : args[i] \in ValidPairs

\* let arguments = <routine>(..)?: the routine of the line being handled has
\* returned, with the arguments (ok) or with an error.
Acquire(routine, ok) ==
  acquired' = Append(acquired, [line |-> Len(log) + 1, routine |-> routine,
                                ok |-> ok])

\* client.call_tool(tool_name, arguments) is sent.
SendCallTool ==
  /\ cur' = [cur EXCEPT !.reqs = Append(@, "call_tool")]
  /\ pc' = "await_call_tool"
  /\ UNCHANGED << ret, log, signalsSent, prompt_chan >>

\* list_tools completes; the tool is looked up; the argument mode is chosen.
ListToolsReply ==
  /\ pc = "await_list_tools"
  /\ \E reply \in {"Ok", "Err"} :
       IF reply = "Err"
         THEN /\ DispatchDone(cur.ev, "Protocol", cur.reqs, cur.reads)
              /\ UNCHANGED acquired
       ELSE IF ~FindTool(ServerTools, cur.cmd.tool)
         THEN /\ DispatchDone(cur.ev, "NotFound", cur.reqs, cur.reads)
              /\ UNCHANGED acquired
       ELSE IF ArgumentRoutine(cur.cmd) # "cmdline"
         THEN /\ pc' = "read_args"
              /\ UNCHANGED << cur, ret, log, signalsSent, prompt_chan, acquired >>
       ELSE
         /\ Acquire("cmdline", CmdlineArgsOk(cur.cmd.args))
         /\ IF CmdlineArgsOk(cur.cmd.args)
              THEN SendCallTool
              ELSE DispatchDone(cur.ev, "Args", cur.reqs, cur.reads)
  /\ UNCHANGED << loopFrame, init_result, initShown, input_chan,
                  notification_chan, rendered >>

\* A mutant of ReadArgs: a failed read falls back to empty arguments.
ReadArgsIgnoresFailure ==
  /\ pc = "read_args"
  /\ \E ok \in BOOLEAN :
       /\ Acquire(ArgumentRoutine(cur.cmd), ok)
       /\ cur' = [cur EXCEPT !.reqs = Append(@, "call_tool"), !.reads = @ + 1]
       /\ pc' = "await_call_tool"
       /\ UNCHANGED << ret, log, signalsSent, prompt_chan >>
  /\ UNCHANGED << loopFrame, init_result, initShown, input_chan,
                  notification_chan, rendered >>

\* parse_json_arguments(output) reads standard input; parse_interactive_arguments
\* (tool, output) prompts on the terminal. Either yields the arguments or fails.
ReadArgs ==
  /\ pc = "read_args"
  /\ \E ok \in BOOLEAN :
       /\ Acquire(ArgumentRoutine(cur.cmd), ok)
       /\ IF ok
            THEN /\ cur' = [cur EXCEPT !.reqs = Append(@, "call_tool"),
                                       !.reads = @ + 1]
                 /\ pc' = "await_call_tool"
                 /\ UNCHANGED << ret, log, signalsSent, prompt_chan >>
            ELSE DispatchDone(cur.ev, "Args", cur.reqs, cur.reads + 1)
  /\ UNCHANGED << loopFrame, init_result, initShown, input_chan,
                  notification_chan, rendered >>

\* call_tool completes; output::calltool::call_tool_result renders the result.
CallToolReply ==
  /\ pc = "await_call_tool"
  /\ \E res \in {"Ok", "Protocol", "Output"} :
       DispatchDone(cur.ev, res, cur.reqs, cur.reads)
  /\ UNCHANGED << loopFrame, auxVars, input_chan, notification_chan, rendered >>

\* Some(Err(Interrupted)) | Some(Err(Eof)) | Some(Err(err)): render, break.
ReadErrorText(kind) ==
  IF kind = "Interrupted" THEN "CTRL-C"
  ELSE IF kind = "Eof" THEN "CTRL-D"
  ELSE "Error"

\* A mutant of HandleReadError: the arm's break is missing.
HandleReadErrorContinues ==
  /\ RecvLine
  /\ LET ev == Head(input_chan) IN
       /\ ev.kind \in ReadErrors
       /\ LogLine(ev, ReadErrorText(ev.kind), "none", <<>>, 0)
  /\ UNCHANGED << loopFrame, auxVars, notification_chan, rendered, prompt_chan,
                  signalsSent, pc, ret, cur >>

HandleReadError ==
  /\ RecvLine
  /\ LET ev == Head(input_chan) IN
       /\ ev.kind \in ReadErrors
       /\ \E renderOk \in BOOLEAN :
            /\ LogLine(ev, IF renderOk THEN ReadErrorText(ev.kind)
                                       ELSE "OutputError", "none", <<>>, 0)
            /\ Return(IF renderOk THEN "Ok" ELSE "Err")
  /\ UNCHANGED << loopFrame, auxVars, notification_chan, rendered, prompt_chan, signalsSent >>

\* A mutant of HandleClosed: None => continue, the closure is ignored.
HandleClosedIgnored ==
  /\ pc = "select"
  /\ input_chan = <<>>
  /\ ls = "done"
  /\ UNCHANGED vars

\* None => break: every input_tx is dropped and the channel is empty.
HandleClosed ==
  /\ pc = "select"
  /\ input_chan = <<>>
  /\ ls = "done"
  /\ Return("Ok")
  /\ UNCHANGED << loopFrame, auxVars, input_chan, notification_chan, rendered,
                  prompt_chan, signalsSent, log >>

\* ------------------------------------- tests/notification_integration.rs
\* The levels test_set_level_command_notifications_via_tcp requests.
TestLevels == {"Debug", "Info", "Warning", "Error"}

\* Requests the test client makes before it looks at its queue.
MaxRequests == 3

\* SimpleTestServerConn::set_level: context.notify(LoggingMessage{level,..}),
\* then Ok(()): the notification is sent before the reply.
ServerSetLevel(level) ==
  << [type |-> "notification", level |-> level],
     [type |-> "response", level |-> level] >>

\* client.set_level(level) is called; the server handles the request.
TestSetLevel ==
  /\ ~awaiting
  /\ Len(completed) < MaxRequests
  /\ \E level \in TestLevels : wire' = wire \o ServerSetLevel(level)
  /\ awaiting' = TRUE
  /\ UNCHANGED << completed, server_notification_chan, sessionVars >>

\* A mutant of TestRelaySend: a queue of capacity 1, whose send waits for room.
TestRelaySendBounded(n) ==
  /\ Len(server_notification_chan) < 1
  /\ server_notification_chan' = Append(server_notification_chan, n)

\* drop(self.server_notification_sender.send(notification)): an unbounded send.
TestRelaySend(n) ==
  server_notification_chan' = Append(server_notification_chan, n)

\* The client takes a notification off the connection and calls
\* SimpleTestClientConn::notification.
ClientNotification ==
  /\ wire # <<>>
  /\ Head(wire).type = "notification"
  /\ TestRelaySend(Head(wire).level)
  /\ wire' = Tail(wire)
  /\ UNCHANGED << awaiting, completed, sessionVars >>

\* The client takes the reply off the connection: client.set_level(..).await
\* returns.
ClientResponse ==
  /\ wire # <<>>
  /\ Head(wire).type = "response"
  /\ completed' = Append(completed, Head(wire).level)
  /\ awaiting' = FALSE
  /\ wire' = Tail(wire)
  /\ UNCHANGED << server_notification_chan, sessionVars >>

\* ------------------------------------------------------------ specification
Next ==
  \/ Notify
  \/ LsStart
  \/ LsReadLine
  \/ LsReadError
  \/ LsPromptRecv
  \/ HandleNotification
  \/ HandleQuit
  \/ HandleHelp
  \/ HandleInit
  \/ HandleInvalid
  \/ StartPing
  \/ PingReply
  \/ StartCallTool
  \/ ListToolsReply
  \/ ReadArgs
  \/ CallToolReply
  \/ HandleReadError
  \/ HandleClosed

Spec == Init /\ [][Next]_vars

\* The same session, the operator typing only the lines of IdleLines.
NextIdle ==
  \/ Notify
  \/ LsStart
  \/ LsReadIdleLine
  \/ LsReadError
  \/ LsPromptRecv
  \/ HandleNotification
  \/ HandleQuit
  \/ HandleHelp
  \/ StartPing
  \/ PingReply
  \/ HandleReadError
  \/ HandleClosed

\* select! polls both branches whenever the loop waits: a notification that
\* stays queued while the loop waits is taken.
SpecFair == Init /\ [][NextIdle]_vars /\ WF_vars(HandleNotification)

\* The readline thread is an OS thread: when prompt_rx.recv() can return, it
\* does.
SpecThread == Init /\ [][NextIdle]_vars /\ WF_vars(LsPromptRecv)

\* select! polls input_rx.recv() whenever the loop waits: a closed, empty input
\* channel is noticed.
SpecClosed == Init /\ [][NextIdle]_vars /\ WF_vars(HandleClosed)

\* The same session, the operator typing only calltool lines, every choice of
\* tool, inline arguments and flags among them.
NextCallTool ==
  \/ LsStart
  \/ LsReadToolLine
  \/ LsReadError
  \/ LsPromptRecv
  \/ StartCallTool
  \/ ListToolsReply
  \/ ReadArgs
  \/ CallToolReply
  \/ HandleReadError
  \/ HandleClosed

SpecCallTool == Init /\ [][NextCallTool]_vars

\* The same session, the operator typing structured commands of every kind.
NextDispatch ==
  \/ LsStart
  \/ LsReadOpLine
  \/ LsReadError
  \/ LsPromptRecv
  \/ StartPing
  \/ PingReply
  \/ StartOp
  \/ OpReply
  \/ StartCallTool
  \/ ListToolsReply
  \/ ReadArgs
  \/ CallToolReply
  \/ HandleReadError
  \/ HandleClosed

SpecDispatch == Init /\ [][NextDispatch]_vars

\* The same session, the operator typing only setlevel lines.
NextSetLevel ==
  \/ LsStart
  \/ LsReadLevelLine
  \/ LsReadError
  \/ LsPromptRecv
  \/ StartOp
  \/ OpReply
  \/ HandleReadError
  \/ HandleClosed

SpecSetLevel == Init /\ [][NextSetLevel]_vars

\* The integration test's client: requests, never draining its queue.
NextNotify ==
  \/ TestSetLevel
  \/ ClientNotification
  \/ ClientResponse

SpecNotify == Init /\ [][NextNotify]_vars

TypeOK ==
  /\ ls \in {"start", "reading", "waiting", "done"}
  /\ typed \in 0..MaxLines
  /\ prompt_chan \in Nat
  /\ pc \in {"select", "await_ping", "await_op", "await_list_tools",
             "read_args", "await_call_tool", "returned"}
  /\ ret \in {"none", "Ok", "Err"}
  /\ (ret = "none") = (pc # "returned")

\* ------------------------------------------------------- claim vocabulary
IsPrefix(a, b) == Len(a) <= Len(b) /\ SubSeq(b, 1, Len(a)) = a

Last(q) == q[Len(q)]

\* The line events the loop has received, in the order it received them.
LoggedEvents == [i \in 1..Len(log) |-> log[i].ev]

\* The line event whose command is in flight, if any.
InFlightEvents == IF pc \in {"select", "returned"} THEN <<>> ELSE <<cur.ev>>

QuitWords == { <<"quit">>, <<"exit">> }
LocalWords == QuitWords \cup { <<"help">>, <<"init">> }

\* A command line: a successful line event other than quit / exit.
IsCommandLine(ev) == ev.kind = "Ok" /\ ev.line \notin QuitWords

\* Log entries of command lines whose handling ran to the end of the arm.
CompletedCommands ==
  { i \in DOMAIN log : IsCommandLine(log[i].ev) /\ log[i].out # "OutputError" }

OkEventsSent == { i \in DOMAIN inputSent : inputSent[i].kind = "Ok" }

\* ----------------------------------------------------------------- C1
\* C1 as stated: each enqueued event is handled exactly once. Checked where a
\* finite run decides it: when `quit` or `exit` has ended the session, every
\* notification and line event enqueued before has been handled.
C1_AllHandledAtQuit ==
  (Returned /\ log # <<>> /\ Last(log).out = "Goodbye")
    => (rendered = notifSent /\ LoggedEvents = inputSent)

\* C1 amended: per queue, events are handled at most once and in enqueue
\* order: what has been handled is a prefix of what was enqueued, and while
\* the loop runs every enqueued event is handled, in flight or still queued.
C1_PerQueueOrder ==
  /\ IsPrefix(rendered, notifSent)
  /\ IsPrefix(LoggedEvents, inputSent)
  /\ ~Returned => notifSent = rendered \o notification_chan
  /\ ~Returned => inputSent = LoggedEvents \o InFlightEvents \o input_chan

\* Two notifications and two lines handled in one session, a notification
\* having been queued behind another.
C1_Witness ==
  /\ Len(rendered) = 2
  /\ Len(log) = 2
  /\ rendered = notifSent
  /\ LoggedEvents = inputSent

\* ----------------------------------------------------------------- C2
\* C2: the pacing signals sent are exactly one per command line handled to the
\* end (help, init, a command that succeeds or fails, an unparsable line);
\* notifications add none; and whenever the Line Source is at the prompt every
\* line it emitted has been answered by one signal, none left over.
C2_OneSignalPerCommand ==
  /\ signalsSent = Cardinality(CompletedCommands)
  /\ prompt_chan <= 1
  /\ ls = "reading" =>
       (prompt_chan = 0 /\ signalsSent = Cardinality(OkEventsSent))

\* A failed command and an unparsable line handled, two notifications
\* rendered, and the Line Source back at the prompt.
C2_Witness ==
  /\ Len(log) = 2
  /\ log[1].out = "Command failed"
  /\ log[2].out = "Invalid command"
  /\ Len(rendered) = 2
  /\ signalsSent = 2
  /\ ls = "reading"

\* ----------------------------------------------------------------- C3
ModesSelected(cmd) ==
  Cardinality({ m \in {"args", "interactive", "json"} :
                  \/ m = "args" /\ cmd.args # <<>>
                  \/ m = "interactive" /\ cmd.interactive
                  \/ m = "json" /\ cmd.json })

BadModeLine(ev) ==
  /\ ev.kind = "Ok"
  /\ ParseCommand(SplitWhitespace(ev.line)).op = "calltool"
  /\ ModesSelected(ParseCommand(SplitWhitespace(ev.line))) # 1

\* C3: a tool call selecting zero or several of {inline args, interactive,
\* json} returns the usage error with no request sent and nothing read, and
\* is never in flight.
C3_ModeErrorBeforeIO ==
  /\ \A i \in DOMAIN log :
       BadModeLine(log[i].ev) =>
         /\ log[i].res = "Usage"
         /\ log[i].reqs = <<>>
         /\ log[i].reads = 0
  /\ ~BadModeLine(cur.ev)

\* One tool call with no mode and one with all three modes were refused.
C3_Witness ==
  /\ Len(log) = 2
  /\ ModesSelected(ParseCommand(SplitWhitespace(log[1].ev.line))) = 0
  /\ ModesSelected(ParseCommand(SplitWhitespace(log[2].ev.line))) = 3
  /\ log[1].res = "Usage"
  /\ log[2].res = "Usage"

\* ----------------------------------------------------------------- C4
\* C4: a `quit` or `exit` line is the last thing the loop handles: the loop has
\* returned, nothing was sent on the connection for it, it is rendered as the
\* farewell (or the output failed), and it is never dispatched.
C4_QuitLeavesLoop ==
  /\ \A i \in DOMAIN log :
       (log[i].ev.kind = "Ok" /\ log[i].ev.line \in QuitWords) =>
         /\ i = Len(log)
         /\ Returned
         /\ log[i].reqs = <<>>
         /\ log[i].res = "none"
         /\ log[i].out \in {"Goodbye", "OutputError"}
  /\ cur.ev.line \notin QuitWords

\* `exit` ended a session in which a line and a notification were handled.
C4_Witness ==
  /\ Len(log) = 2
  /\ log[2].ev.line = <<"exit">>
  /\ log[2].out = "Goodbye"
  /\ Len(rendered) >= 1
  /\ ret = "Ok"

\* ----------------------------------------------------------------- C5
AllSpaces(raw) == \A i \in DOMAIN raw : raw[i] = SP

\* readline has just returned a line that is empty or whitespace only.
EmptyLineRead ==
  /\ typed' = typed + 1
  /\ lastRaw'.kind = "Ok"
  /\ AllSpaces(lastRaw'.line)

\* C5: reading an empty line sends no line event and leaves the thread reading
\* (it does not wait on the pacing channel); the loop sends no signal for it:
\* signals never outnumber the line events sent, none of which is empty.
C5_EmptyLineSilent ==
  /\ [][EmptyLineRead =>
          /\ UNCHANGED << input_chan, inputSent, prompt_chan, signalsSent >>
          /\ ls' = "reading"]_vars
  /\ [](/\ signalsSent <= Cardinality(OkEventsSent)
        /\ \A i \in OkEventsSent :
             /\ inputSent[i].line # <<>>
             /\ Head(inputSent[i].line) # SP
             /\ Last(inputSent[i].line) # SP)

\* A whitespace-only line was read first, then a second line was read: the
\* thread prompted again by itself.
C5_Witness ==
  /\ typed = 2
  /\ Len(inputSent) = 1
  /\ signalsSent = 0
  /\ lastRaw.kind = "Ok"
  /\ ~AllSpaces(lastRaw.line)

\* ----------------------------------------------------------------- C6
\* The handling of a line event ends in this step.
LineLogged == Len(log') = Len(log) + 1

\* A line that is none of quit / exit / help / init and does not parse.
InvalidLine(ev) ==
  /\ ev.kind = "Ok"
  /\ ev.line \notin LocalWords
  /\ ParseCommand(SplitWhitespace(ev.line)).op = "invalid"

\* C6 as stated: an unparsable line is rendered as "Invalid command", nothing
\* is dispatched, and the loop goes on.
C6_InvalidAlwaysContinues ==
  [][(LineLogged /\ InvalidLine(Last(log').ev)) =>
        /\ Last(log').out = "Invalid command"
        /\ Last(log').reqs = <<>>
        /\ pc' = "select"
        /\ ret' = "none"]_vars

\* C6 amended: an unparsable line dispatches nothing and reads nothing; it is
\* rendered as "Invalid command", the signal is sent and the loop goes on, or
\* writing that message fails and connect_command returns the output error.
C6_InvalidContinuesUnlessOutputFails ==
  /\ [][(LineLogged /\ InvalidLine(Last(log').ev)) =>
          /\ Last(log').reqs = <<>>
          /\ Last(log').reads = 0
          /\ Last(log').res = "none"
          /\ \/ /\ Last(log').out = "Invalid command"
                /\ pc' = "select"
                /\ ret' = "none"
                /\ signalsSent' = signalsSent + 1
             \/ /\ Last(log').out = "OutputError"
                /\ pc' = "returned"
                /\ ret' = "Err"
                /\ signalsSent' = signalsSent]_vars
  /\ [](~InvalidLine(cur.ev))

\* An unparsable line was rendered as such and the next line was handled.
C6_Witness ==
  /\ Len(log) = 2
  /\ InvalidLine(log[1].ev)
  /\ log[1].out = "Invalid command"
  /\ log[2].out = "help"
  /\ pc = "select"

\* ----------------------------------------------------------------- C7
DispatchErrors == {"Usage", "Args", "Protocol", "NotFound", "Output"}

\* C7 as stated: a command that returns an error is rendered as "Command
\* failed", the signal is sent and the loop goes on.
C7_FailureAlwaysContinues ==
  [][(LineLogged /\ Last(log').res \in DispatchErrors) =>
        /\ Last(log').out = "Command failed"
        /\ pc' = "select"
        /\ ret' = "none"
        /\ signalsSent' = signalsSent + 1]_vars

\* C7 amended: a command that returns an error is rendered as "Command
\* failed", the signal is sent and the loop goes on to the next event, or
\* writing that message fails and connect_command returns the output error.
C7_FailureContinuesUnlessOutputFails ==
  [][(LineLogged /\ Last(log').res \in DispatchErrors) =>
        \/ /\ Last(log').out = "Command failed"
           /\ pc' = "select"
           /\ ret' = "none"
           /\ signalsSent' = signalsSent + 1
           /\ UNCHANGED << notification_chan, rendered >>
        \/ /\ Last(log').out = "OutputError"
           /\ pc' = "returned"
           /\ ret' = "Err"
           /\ signalsSent' = signalsSent]_vars

\* An argument-resolution error, then a usage error, each rendered; then a
\* notification rendered.
C7_Witness ==
  /\ Len(log) = 2
  /\ log[1].res = "Args"
  /\ log[1].out = "Command failed"
  /\ log[2].res = "Usage"
  /\ log[2].out = "Command failed"
  /\ signalsSent = 2
  /\ rendered # <<>>
  /\ pc = "select"

\* ----------------------------------------------------------------- C8
\* readline has just returned an error.
ErrorRead == typed' = typed + 1 /\ lastRaw'.kind \in ReadErrors

\* C8 as stated, the loop's part: a read error event is rendered and
\* connect_command returns success.
C8_ReadErrorReturnsOk ==
  \A i \in DOMAIN log :
    log[i].ev.kind \in ReadErrors =>
      /\ Returned
      /\ ret = "Ok"
      /\ log[i].out = ReadErrorText(log[i].ev.kind)

\* C8 amended: on a read error the thread sends that one error event and ends;
\* the loop sends no signal for it, leaves the loop, and connect_command
\* returns success, or the output error when rendering the event fails.
C8_ReadErrorEndsSession ==
  /\ [][ErrorRead =>
          /\ ls' = "done"
          /\ IF Returned
               THEN UNCHANGED << input_chan, inputSent >>
               ELSE /\ input_chan' = Append(input_chan, lastRaw')
                    /\ inputSent' = Append(inputSent, lastRaw')]_vars
  /\ [][(LineLogged /\ Last(log').ev.kind \in ReadErrors) =>
          UNCHANGED << signalsSent, prompt_chan >>]_vars
  /\ [](\A i \in DOMAIN inputSent :
          inputSent[i].kind \in ReadErrors =>
            (i = Len(inputSent) /\ ls = "done"))
  /\ [](\A i \in DOMAIN log :
          log[i].ev.kind \in ReadErrors =>
            /\ i = Len(log)
            /\ Returned
            /\ log[i].reqs = <<>>
            /\ \/ log[i].out = ReadErrorText(log[i].ev.kind) /\ ret = "Ok"
               \/ log[i].out = "OutputError" /\ ret = "Err")

\* An interrupt ended a session in which a line had been handled.
C8_Witness ==
  /\ Len(log) = 2
  /\ log[2].ev.kind = "Interrupted"
  /\ log[2].out = "CTRL-C"
  /\ ls = "done"
  /\ ret = "Ok"
  /\ signalsSent = 1

\* ----------------------------------------------------------------- C9
\* C9: the relay can always be called and every call returns Ok; while the
\* receiver lives the call appends exactly the notification it was given to the
\* queue, and once the receiver is dropped it changes nothing; it never
\* touches the session loop's state.
C9_RelayNeverFails ==
  /\ [](/\ Len(relayReturns) = Len(delivered)
        /\ \A i \in DOMAIN relayReturns : relayReturns[i] = "Ok"
        /\ Len(delivered) < MaxNotifs => ENABLED Notify)
  /\ [][delivered' # delivered =>
          /\ IF Returned
               THEN UNCHANGED << notification_chan, notifSent >>
               ELSE notification_chan' =
                      Append(notification_chan, Last(delivered'))
          /\ UNCHANGED << pc, ret, cur, log, rendered, input_chan, prompt_chan >>]_vars

\* A notification arrived after connect_command had returned, and the relay
\* returned Ok for it.
C9_Witness ==
  /\ Returned
  /\ Len(delivered) = 2
  /\ Len(notifSent) = 1
  /\ Last(relayReturns) = "Ok"

\* ---------------------------------------------------------------- C10
ClientStep == ClientNotification \/ ClientResponse

\* C10: while a request is outstanding the client can always take the next
\* message off the connection, whatever its queue holds; and whenever no
\* request is outstanding the undrained queue holds one notification per
\* completed request, in request order.
C10_NoHangOnePerRequest ==
  /\ awaiting => (wire # <<>> /\ ENABLED ClientStep)
  /\ ~awaiting => (wire = <<>> /\ server_notification_chan = completed)

\* Every request of the test completed with nothing drained.
C10_Witness ==
  /\ ~awaiting
  /\ Len(completed) = MaxRequests
  /\ Len(server_notification_chan) = MaxRequests

\* The successful line events emitted and not yet handled to the end: queued
\* on the input channel or in flight in the loop.
UnfinishedLines ==
  { i \in (Len(log) + 1)..Len(inputSent) : inputSent[i].kind = "Ok" }

\* C11: from the emission of a successful line event until the loop has
\* finished handling it, the Line Source thread is blocked on the pacing
\* channel (or has ended because the loop left), with no signal to take, and
\* is not in a terminal read.
C11_NoPromptWhileHandling ==
  UnfinishedLines # {} =>
    /\ ls # "reading"
    /\ ls \in {"waiting", "done"}
    /\ ls = "done" => Returned
    /\ ls = "waiting" /\ ~Returned => prompt_chan = 0

\* A tool call is awaiting its reply while the thread waits for the signal.
C11_Witness ==
  /\ pc = "await_call_tool"
  /\ UnfinishedLines # {}
  /\ ls = "waiting"
  /\ notification_chan # <<>>

\* C12: the session loop never performs a blocking read of human input: it is
\* never inside an argument routine reading standard input or the terminal,
\* and no line it handled made it read.
C12_LoopNeverReads ==
  /\ pc # "read_args"
  /\ cur.reads = 0
  /\ \A i \in 1..Len(log) : log[i].reads = 0

\* The structured command a handled line parsed to.
CommandOf(ev) == ParseCommand(SplitWhitespace(ev.line))

\* The lines the loop dispatched: their command ran an mcp function.
Dispatched == { i \in 1..Len(log) : log[i].res # "none" }

\* The client method each one-request command kind is to call.
ExpectedRequest(op) ==
  CASE op = "ping" -> "ping"
    [] op = "listtools" -> "list_tools"
    [] op = "listresources" -> "list_resources"
    [] op = "listprompts" -> "list_prompts"
    [] op = "listresourcetemplates" -> "list_resource_templates"
    [] op = "set_level" -> "set_level"
    [] op = "read_resource" -> "resources_read"
    [] op = "get_prompt" -> "get_prompt"
    [] op = "subscribe_resource" -> "resources_subscribe"
    [] op = "unsubscribe_resource" -> "resources_unsubscribe"
    [] op = "complete" -> "complete"

\* C13 as stated: every dispatched command, of every kind, invoked exactly one
\* protocol operation on the connection.
C13_ExactlyOneRequest ==
  \A i \in Dispatched : Len(log[i].reqs) = 1

\* C13, amended: a dispatched command sends only requests of its own kind; a
\* command other than calltool sends exactly one, or none when it failed before
\* its request (output error, invalid level, reference or argument); calltool
\* sends list_tools and then, the tool found and the arguments resolved,
\* call_tool: none on a usage or output error, two when it succeeds.
C13_RequestsPerCommand ==
  /\ \A i \in Dispatched :
       LET e == log[i]
           op == CommandOf(e.ev).op IN
         IF op = "calltool"
           THEN /\ IsPrefix(e.reqs, << "list_tools", "call_tool" >>)
                /\ e.res = "Ok" => Len(e.reqs) = 2
                /\ Len(e.reqs) = 0 => e.res \in {"Usage", "Output"}
                /\ Len(e.reqs) = 1 => e.res \in {"Protocol", "NotFound", "Args"}
           ELSE /\ e.reqs \in { <<>>, << ExpectedRequest(op) >> }
                /\ e.reqs = <<>> => e.res \in {"Output", "Invalid"}
                /\ e.res \in {"Ok", "Protocol"} => e.reqs # <<>>
  /\ pc \in {"await_ping", "await_op"} =>
       cur.reqs = << ExpectedRequest(cur.cmd.op) >>
  /\ pc \in {"await_list_tools", "read_args"} => cur.reqs = << "list_tools" >>
  /\ pc = "await_call_tool" => cur.reqs = << "list_tools", "call_tool" >>

\* A tool call that sent two requests and a command that sent none.
C13_Witness ==
  /\ \E i \in Dispatched :
       /\ CommandOf(log[i].ev).op = "calltool"
       /\ log[i].reqs = << "list_tools", "call_tool" >>
       /\ log[i].res = "Ok"
  /\ \E i \in Dispatched :
       /\ CommandOf(log[i].ev).op = "set_level"
       /\ log[i].reqs = <<>>
       /\ log[i].res = "Invalid"

\* The requests sent for the i-th line the loop received: logged, or in flight.
RequestsOfLine(i) ==
  IF i <= Len(log) THEN log[i].reqs
  ELSE IF InFlightEvents # <<>> /\ i = Len(log) + 1 THEN cur.reqs
  ELSE <<>>

\* C14: when the argument routine of a tool call fails, in any mode, no
\* call_tool request is sent for that call, and calltool returns the error:
\* the line is logged as a failed command.
C14_NoCallAfterArgFailure ==
  /\ \A k \in 1..Len(acquired) :
       ~acquired[k].ok =>
         /\ \A j \in 1..Len(RequestsOfLine(acquired[k].line)) :
              RequestsOfLine(acquired[k].line)[j] # "call_tool"
         /\ acquired[k].line <= Len(log)
         /\ log[acquired[k].line].res = "Args"
         /\ log[acquired[k].line].out \in {"Command failed", "OutputError"}
  /\ \A i \in 1..Len(log) :
       LET cmd == CommandOf(log[i].ev) IN
         (/\ cmd.op = "calltool"
          /\ ~cmd.json /\ ~cmd.interactive
          /\ \E a \in DOMAIN cmd.args : cmd.args[a] # "k=v")
         => /\ log[i].reqs \in { <<>>, << "list_tools" >> }
            /\ log[i].res # "Ok"

\* Arguments failed in a read mode for one call and inline for another.
C14_Witness ==
  /\ \E k \in 1..Len(acquired) :
       ~acquired[k].ok /\ acquired[k].routine \in {"json", "interactive"}
  /\ \E k \in 1..Len(acquired) :
       ~acquired[k].ok /\ acquired[k].routine = "cmdline"

\* The `init` lines the loop handled.
InitLines ==
  { i \in 1..Len(log) : log[i].ev.kind = "Ok" /\ log[i].ev.line = <<"init">> }

\* C15: an `init` line sends no protocol request and runs no handshake; what it
\* renders is the initialization result captured at connect time, and that
\* captured result never changes during the session.
C15_InitShowsCapturedResult ==
  /\ [](\A i \in InitLines : log[i].reqs = <<>> /\ log[i].res = "none")
  /\ [](\A k \in 1..Len(initShown) : initShown[k] = init_result)
  /\ [](Len(initShown) =
          Cardinality({ i \in InitLines : log[i].out = "init" }))
  /\ [][init_result' = init_result]_vars

\* `init` was typed twice and rendered twice.
C15_Witness ==
  /\ Len(initShown) = 2
  /\ Cardinality(InitLines) = 2

\* A command is in flight: dispatched, its result not yet rendered.
CommandInFlight == pc \notin {"select", "returned"}

\* C16: while a dispatched command is in flight the loop handles no other
\* event: nothing is rendered from the notification queue, nothing is taken
\* off either queue, and the only line that can be logged is the command's own;
\* notifications that arrive stay queued, in order.
C16_CommandRunsToCompletion ==
  [][CommandInFlight =>
       /\ rendered' = rendered
       /\ IsPrefix(notification_chan, notification_chan')
       /\ input_chan' = input_chan
       /\ \/ log' = log /\ cur'.ev = cur.ev
          \/ /\ Len(log') = Len(log) + 1
             /\ Last(log').ev = cur.ev
             /\ SubSeq(log', 1, Len(log)) = log
             /\ pc' \in {"select", "returned"}]_vars

\* Notifications arrived while a ping was in flight and none was rendered.
C16_Witness ==
  /\ pc = "await_ping"
  /\ Len(notification_chan) = MaxNotifs
  /\ rendered = <<>>

\* The j-th notification the relay sent is queued, the thread is blocked in
\* readline and the loop waits in select!.
QueuedAtPrompt(j) ==
  /\ pc = "select"
  /\ ls = "reading"
  /\ Len(rendered) < j
  /\ j <= Len(rendered) + Len(notification_chan)

EmitsLine ==
  /\ Len(inputSent') = Len(inputSent) + 1
  /\ Last(inputSent').kind = "Ok"

\* C18: the input queue never holds more than one unhandled line event, queued
\* and in-flight lines together are at most one, and the thread emits a
\* successful line event only when every earlier one has been handled to the
\* end and acknowledged by a pacing signal, which the thread has consumed.
C18_OneOutstandingLine ==
  /\ [](Len(input_chan) <= 1)
  /\ [](Len(input_chan) + Len(InFlightEvents) <= 1)
  /\ [][EmitsLine =>
          /\ input_chan = <<>>
          /\ pc = "select"
          /\ Len(log) = Len(inputSent)
          /\ signalsSent = Len(inputSent)
          /\ prompt_chan = 0]_vars

\* A second line was emitted after the first was handled and acknowledged.
C18_Witness ==
  /\ Len(inputSent) = 2
  /\ Len(input_chan) = 1
  /\ Len(log) = 1
  /\ signalsSent = 1
  /\ inputSent[2].kind = "Ok"

\* The one mode a tool call selects, when it selects exactly one.
SelectedMode(cmd) ==
  IF ModesSelected(cmd) # 1 THEN "none"
  ELSE IF cmd.json THEN "json"
  ELSE IF cmd.interactive THEN "interactive"
  ELSE "cmdline"

\* The argument routines that have returned for the i-th line received.
RoutinesOfLine(i) == { k \in 1..Len(acquired) : acquired[k].line = i }

LoopLeft == ret # "none"

\* C20: once the loop has been left, by quit, exit, a read error, a closed
\* input queue or an output error, no step renders a notification, handles a
\* line, dispatches a command, sends a request or sends a pacing signal; the
\* two queues keep what they held, the pacing channel gains nothing (the thread
\* may still take a signal sent before) and the result stays what it was.
C20_ClosingIsTerminal ==
  [][LoopLeft =>
       /\ UNCHANGED << rendered, log, cur, ret, pc, signalsSent, initShown,
                       acquired, notification_chan, input_chan, inputSent,
                       notifSent >>
       /\ prompt_chan' <= prompt_chan
       /\ pc = "returned"]_vars

\* After the loop was left with a notification still queued, the server pushed
\* another one and the thread ended.
C20_Witness ==
  /\ LoopLeft
  /\ ls = "done"
  /\ notification_chan # <<>>
  /\ Len(delivered) > Len(notifSent)
  /\ Len(rendered) < Len(notifSent)

\* A tool call with exactly one mode selected naming a tool the server does
\* not list.
UnknownToolCall(cmd) ==
  /\ cmd.op = "calltool"
  /\ ModesSelected(cmd) = 1
  /\ cmd.tool \notin {"echo"}

\* C21: a tool call with a valid mode selection whose tool is absent from the
\* list_tools result returns the not-found error with no argument routine run,
\* nothing read and no call_tool request; it is never reading arguments nor
\* awaiting call_tool.
C21_NotFoundBeforeArguments ==
  /\ \A i \in 1..Len(log) :
       UnknownToolCall(CommandOf(log[i].ev)) =>
         /\ log[i].reqs \in { <<>>, << "list_tools" >> }
         /\ log[i].reads = 0
         /\ RoutinesOfLine(i) = {}
         /\ log[i].res \in {"NotFound", "Protocol", "Output"}
         /\ log[i].res = "Output" <=> log[i].reqs = <<>>
         /\ log[i].out \in {"Command failed", "OutputError"}
  /\ (CommandInFlight /\ UnknownToolCall(cur.cmd)) =>
       /\ pc = "await_list_tools"
       /\ cur.reqs = << "list_tools" >>
       /\ cur.reads = 0
       /\ RoutinesOfLine(Len(log) + 1) = {}

\* Unknown tools were refused in a read mode and in inline mode.
C21_Witness ==
  /\ \E i \in 1..Len(log) :
       /\ UnknownToolCall(CommandOf(log[i].ev))
       /\ CommandOf(log[i].ev).json
       /\ log[i].res = "NotFound"
  /\ \E i \in 1..Len(log) :
       /\ UnknownToolCall(CommandOf(log[i].ev))
       /\ CommandOf(log[i].ev).args # <<>>
       /\ log[i].res = "NotFound"

\* The spellings that are one of the eight levels when case is ignored.
LevelSpellings ==
  {"debug", "info", "notice", "warning", "error", "critical", "alert",
   "emergency", "DEBUG", "Info", "WARNING", "eMeRgEnCy"}

\* The set_level lines the loop handled.
SetLevelLines ==
  { i \in Dispatched : CommandOf(log[i].ev).op = "set_level" }

\* C22 as stated: set_level sends its request exactly when the level, case
\* ignored, is one of the eight levels, and any other string gets the
\* invalid-level error.
C22_RequestIffLevel ==
  \A i \in SetLevelLines :
    /\ CommandOf(log[i].ev).param \in LevelSpellings
         <=> log[i].reqs = << "set_level" >>
    /\ CommandOf(log[i].ev).param \notin LevelSpellings
         => log[i].res = "Invalid"

\* C22, amended: set_level first writes a line of output; when that fails it
\* returns the output error and sends nothing, whatever the level. Otherwise
\* it sends one set_level request exactly when the level, case ignored, is one
\* of the eight levels, and returns the invalid-level error with no request
\* for any other string.
C22_RequestIffLevelAfterOutput ==
  /\ \A i \in SetLevelLines :
       LET e == log[i]
           valid == CommandOf(e.ev).param \in LevelSpellings IN
         /\ e.reqs \in { <<>>, << "set_level" >> }
         /\ e.reqs = << "set_level" >> => valid
         /\ e.reqs = <<>> => e.res \in {"Output", "Invalid"}
         /\ e.res = "Invalid" => ~valid /\ e.reqs = <<>>
         /\ ~valid => e.res \in {"Invalid", "Output"} /\ e.reqs = <<>>
         /\ valid /\ e.reqs = <<>> => e.res = "Output"
  /\ (pc = "await_op" /\ cur.cmd.op = "set_level") =>
       /\ cur.cmd.param \in LevelSpellings
       /\ cur.reqs = << "set_level" >>

\* A level in mixed case was set and a string that is no level was refused.
C22_Witness ==
  /\ \E i \in SetLevelLines :
       /\ CommandOf(log[i].ev).param = "eMeRgEnCy"
       /\ log[i].reqs = << "set_level" >>
       /\ log[i].res = "Ok"
  /\ \E i \in SetLevelLines :
       /\ CommandOf(log[i].ev).param = "warn"
       /\ log[i].res = "Invalid"

\* C23 as stated: when the loop has ended with the thread waiting for the
\* pacing signal, the thread never shows another prompt.
C23_NoPromptAfterExit ==
  [][LoopLeft /\ ls = "waiting" => ls' # "reading"]_vars

\* C23, amended: when the loop has ended with the thread waiting and no signal
\* left in the pacing channel, the thread sees the closed channel, ends and
\* shows no prompt; when a signal sent before the exit is still in the channel,
\* the thread takes it and shows one more prompt. In both cases it does not
\* stay waiting, and it emits no further line event.
C23_ThreadLeavesTheWait ==
  /\ [][LoopLeft /\ ls = "waiting" /\ prompt_chan = 0 =>
          ls' \in {"waiting", "done"}]_vars
  /\ [][LoopLeft /\ ls = "waiting" /\ prompt_chan > 0 =>
          /\ ls' \in {"waiting", "reading"}
          /\ ls' = "reading" => prompt_chan' = prompt_chan - 1]_vars
  /\ [][LoopLeft => inputSent' = inputSent]_vars
  /\ [](LoopLeft => prompt_chan <= 1)
  /\ (LoopLeft /\ ls = "waiting" /\ prompt_chan = 0) ~> (ls = "done")
  /\ (LoopLeft /\ ls = "waiting") ~> (ls # "waiting")

\* quit was handled with the thread waiting, and the thread has ended.
C23_Witness ==
  /\ LoopLeft
  /\ ls = "done"
  /\ log # <<>>
  /\ Last(log).ev.line \in QuitWords
  /\ lastRaw.kind = "Ok"
  /\ prompt_chan = 0

\* C24: the pacing channel never holds more than one unconsumed signal; it is
\* empty whenever the thread is blocked in readline, and while a line is
\* queued or in flight; a signal is in the channel only between the end of a
\* line's handling and the thread's wake-up.
C24_SignalsNeverAccumulate ==
  /\ prompt_chan <= 1
  /\ ls = "reading" => prompt_chan = 0
  /\ ls \in {"start", "done"} => prompt_chan = 0
  /\ UnfinishedLines # {} => prompt_chan = 0
  /\ prompt_chan = 1 =>
       /\ ls = "waiting"
       /\ Len(log) = Len(inputSent)
       /\ Last(log).out \notin {"Goodbye", "OutputError"}

\* The thread is back at the prompt after two handled lines, the channel empty.
C24_Witness ==
  /\ signalsSent = 2
  /\ ls = "reading"
  /\ prompt_chan = 0
  /\ ~LoopLeft

\* C25: while a tool call of the loop is acquiring its arguments from the
\* terminal or standard input, the thread is blocked on the pacing channel with
\* no signal to take, and is not in readline: the terminal has one reader.
C25_OneTerminalReader ==
  pc = "read_args" =>
    /\ ls = "waiting"
    /\ ls # "reading"
    /\ prompt_chan = 0
    /\ SelectedMode(cur.cmd) \in {"json", "interactive"}
    /\ cur.ev = Last(inputSent)

\* An interactive tool call is prompting for its arguments.
C25_Witness ==
  /\ pc = "read_args"
  /\ cur.cmd.interactive
  /\ ls = "waiting"
  /\ Len(log) = 1

\* The thread has ended without emitting any line event.
EndedSilently == ls = "done" /\ inputSent = <<>>

\* C26 as stated: when the thread has ended without emitting any line event,
\* the loop, when it leaves, returns success.
C26_SilentEndReturnsOk ==
  [][EndedSilently /\ ~LoopLeft /\ LoopLeft' => ret' = "Ok"]_vars

\* C26, amended: when the thread has ended without emitting any line event the
\* loop handles no line and sends no signal, it eventually leaves, and it
\* leaves with success from the closed input queue, unless the rendering of a
\* notification fails first and it leaves with that error.
C26_SilentEndIsObserved ==
  /\ [](EndedSilently => log = <<>> /\ signalsSent = 0 /\ input_chan = <<>>)
  /\ [][EndedSilently /\ ~LoopLeft /\ LoopLeft' =>
          \/ /\ ret' = "Ok"
             /\ UNCHANGED << notification_chan, rendered >>
          \/ /\ ret' = "Err"
             /\ notification_chan # <<>>
             /\ notification_chan' = Tail(notification_chan)
             /\ rendered' = rendered]_vars
  /\ EndedSilently ~> LoopLeft

\* The editor could not be created and the loop returned success.
C26_Witness ==
  /\ EndedSilently
  /\ typed = 0
  /\ lastRaw.kind = "none"
  /\ ret = "Ok"
  /\ log = <<>>

====
